---- MODULE Spec2Model ----
(***************************************************************************)
(* The enrollment state container of the Collaborators dashboard           *)
(* (hooks/useCollaborators.ts): the enrollments array held in React state, *)
(* its persistence to localStorage, and the timers that drive the review   *)
(* pipeline.                                                               *)
(*                                                                         *)
(* setEnrollments(updater) only queues the updater; React applies the      *)
(* queued updaters in order at the next render and then runs the save      *)
(* effect.  The model keeps that split: a handler appends to `queue`, and  *)
(* Render folds the queue over `enrollments` and saves.                    *)
(***************************************************************************)
EXTENDS Integers, Sequences, FiniteSets, TLC

\* ------------------------------------------------------------------ bounds
MaxOps == 4            \* user actions: page loads and handler calls
MaxWriteFailures == 1  \* localStorage writes that throw
MaxNow == 3            \* last clock reading, in ticks
RandDen == 4           \* Math.random() is drawn as k / RandDen

\* ------------------------------------------------------- program constants
REVIEW_DELAY == 4000
APPROVE_DELAY == 8000
FADE_DELAY == 200

\* ------------------------------------------------------------ value model
\* A property that may be undefined is a sequence: <<>> or <<value>>.
None == <<>>
Some(x) == <<x>>

NaN == -1
\* A Date object; v = NaN is the Invalid Date.
DateOf(ms) == [t |-> "Date", v |-> ms]
\* A string holding the ISO form of an instant; v = NaN is any other string.
IsoString(ms) == [t |-> "string", v |-> ms]
Undefined == [t |-> "undefined", v |-> NaN]

Campaigns == <<"c1", "c2">>
CampaignIds == {Campaigns[k] : k \in 1..Len(Campaigns)}
Files == {[name |-> "clip.mp4", size |-> 7]}
RejectionReason ==
  "Video did not meet the campaign guidelines. Please ensure you mention the discount code clearly."

Statuses == {"enrolled", "uploaded", "processing", "under-review", "approved", "rejected"}

\* The object `{}`: every property undefined.
EmptyObject ==
  [id |-> None, campaign |-> None, status |-> None, enrolledAt |-> Undefined,
   uploadedFile |-> None, referralUrl |-> None, clicks |-> None, orders |-> None,
   earnings |-> None, stats |-> None, rejectionReason |-> None]

\* Date.prototype.toISOString: throws RangeError on the Invalid Date.
ToISOStringThrows(d) == d.t = "Date" /\ d.v = NaN
toISOString(d) == IsoString(d.v)

\* new Date(x): an ISO string gives its instant, undefined and any other
\* string give the Invalid Date, a Date is copied.
NewDate(x) ==
  IF x.t = "Date" THEN x
  ELSE IF x.t = "string" /\ x.v # NaN THEN DateOf(x.v)
  ELSE DateOf(NaN)

\* ---------------------------------------------------------- localStorage
\* The value under ENROLLMENTS_STORAGE_KEY.  kind:
\*   "absent"   getItem returns null
\*   "empty"    the empty string
\*   "invalid"  text JSON.parse rejects
\*   "nonarray" JSON that parses to something without .map (an object, null)
\*   "array"    JSON array; items are its elements
\* An element is [t |-> "null" | "number" | "object", o |-> its properties].
StoredValue(kind, items) == [kind |-> kind, items |-> items]
Absent == StoredValue("absent", <<>>)
JsonObject(o) == [t |-> "object", o |-> o]
JsonNull == [t |-> "null", o |-> EmptyObject]
JsonNumber == [t |-> "number", o |-> EmptyObject]

\* loadEnrollmentsFromStorage.  The result of the try block, or "throw".
ReviveElement_raw(x) == x.o
ReviveElement(x) == [x.o EXCEPT !.enrolledAt = NewDate(x.o.enrolledAt)]
LoadThrows(st, readThrows) ==
  \/ readThrows
  \/ st.kind \in {"invalid", "nonarray"}
  \/ st.kind = "array" /\ \E k \in 1..Len(st.items) : st.items[k].t = "null"
loadEnrollmentsFromStorage(st, readThrows) ==
  IF LoadThrows(st, readThrows) THEN <<>>
  ELSE IF st.kind \in {"absent", "empty"} THEN <<>>
  ELSE [k \in 1..Len(st.items) |-> ReviveElement(st.items[k])]

\* saveEnrollmentsToStorage.  Returns the value under the key afterwards.
SerializeElement(e) == JsonObject([e EXCEPT !.enrolledAt = toISOString(e.enrolledAt)])
SaveThrows(enrs, writeThrows) ==
  \/ writeThrows
  \/ \E k \in 1..Len(enrs) : ToISOStringThrows(enrs[k].enrolledAt)
saveEnrollmentsToStorage_clears(enrs, old, writeThrows) ==
  IF SaveThrows(enrs, writeThrows) THEN Absent
  ELSE StoredValue("array", [k \in 1..Len(enrs) |-> SerializeElement(enrs[k])])
saveEnrollmentsToStorage(enrs, old, writeThrows) ==
  IF SaveThrows(enrs, writeThrows) THEN old
  ELSE StoredValue("array", [k \in 1..Len(enrs) |-> SerializeElement(enrs[k])])

\* ------------------------------------------------------------------ state
VARIABLES
  mounts,       \* page loads so far; the hook is mounted once it is positive
  now,          \* clock, in ticks of REVIEW_DELAY ms
  stored,       \* localStorage value under the key
  enrollments,  \* the rendered enrollments state
  queue,        \* updaters passed to setEnrollments since the last render
  timers,       \* pending setTimeout callbacks, in scheduling order
  lastSave,     \* outcome of the latest save effect: "none", "ok", "threw"
  ops,          \* user actions so far
  writeFailures \* writes that threw so far

vars == <<mounts, now, stored, enrollments, queue, timers, lastSave, ops, writeFailures>>

\* AnnouncementsTab: its three useState cells and where loadCampaigns is.
VARIABLES
  annPc,             \* "unmounted", "test", "fetch", "then", "catch", "finally", "done"
  selectedCampaign,  \* None or Some(campaign id)
  campaignsList,     \* campaign ids, in display order
  isLoading,
  supabaseCampaigns, \* None, or Some(rows) once fetchCampaigns has resolved
  fetchCalls         \* calls of fetchCampaigns by this mount

annVars == <<annPc, selectedCampaign, campaignsList, isLoading, supabaseCampaigns, fetchCalls>>

\* lib/supabase.ts and lib/example-fetch.ts: the environment the client is
\* built from and, per fetch function, the state of its latest call.
VARIABLES
  supabaseUrl,       \* None or Some(url): import.meta.env.VITE_SUPABASE_URL
  supabaseAnonKey,   \* None or Some(key): import.meta.env.VITE_SUPABASE_ANON_KEY
  calls              \* fetch function -> [pc, value] of its latest call

fetchVars == <<supabaseUrl, supabaseAnonKey, calls>>

\* EnrollmentsTab: its useState cells, the position ref and the callbacks
\* the animation has pending.
VARIABLES
  tabMounted,
  selectedEnrollment, \* None or Some(the record that was clicked)
  animatingCardIds,   \* set of enrollment ids
  prevPositionsRef,   \* enrollment id -> index in the previous sorted list
  animJobs            \* pending animation callbacks: "frame1", "frame2", "timeout"

tabVars == <<tabMounted, selectedEnrollment, animatingCardIds, prevPositionsRef, animJobs>>

\* AreaChart: its useState cells, the timeout ref and what it has pending.
VARIABLES
  hoveredIndex,       \* None or Some(index of the hovered point)
  tooltipPosition,    \* None or Some(position of that point's tooltip)
  isTooltipVisible,
  tooltipTimeoutRef,  \* None or Some(id of the timeout set by the latest leave)
  chartTimers,        \* pending fade-out timeouts [id, due], in scheduling order
  chartFrames,        \* pending requestAnimationFrame callbacks
  chartNow,           \* clock of the chart, in ticks of FADE_DELAY ms
  chartEvents,        \* mouse events on points so far
  openedBy            \* number of the event whose hover opened the tooltip

chartVars == <<hoveredIndex, tooltipPosition, isTooltipVisible, tooltipTimeoutRef,
               chartTimers, chartFrames, chartNow, chartEvents, openedBy>>

\* useCollaborators: the toast cell, as the sample-enrollment handler drives it.
VARIABLES
  toast,        \* None or Some([message, type])
  toastTimers   \* pending setTimeout(() => setToast(null), 3000) callbacks

toastVars == <<toast, toastTimers>>

viewVars == <<annVars, fetchVars, tabVars, chartVars, toastVars>>
allVars == <<vars, viewVars>>

mounted == mounts > 0
DateNow == now * REVIEW_DELAY

\* A record as an earlier session of the hook stored it.
StoredRecord ==
  JsonObject([EmptyObject EXCEPT
    !.id = Some(1), !.campaign = Some("c1"), !.status = Some("uploaded"),
    !.enrolledAt = IsoString(1), !.uploadedFile = Some([name |-> "clip.mp4", size |-> 7]),
    !.clicks = Some(0), !.orders = Some(0), !.earnings = Some(0)])

\* What the browser may hold under the key when the page is opened.
StoredInputs ==
  { Absent,
    StoredValue("empty", <<>>),
    StoredValue("invalid", <<>>),
    StoredValue("nonarray", <<>>),
    StoredValue("array", <<>>),
    StoredValue("array", <<StoredRecord>>),
    StoredValue("array", <<StoredRecord, JsonNull>>),
    StoredValue("array", <<JsonNumber>>) }

\* The user does something: loads the page or triggers a handler.
UserActs ==
  /\ ops < MaxOps
  /\ ops' = ops + 1

\* localStorage.setItem throws (quota, access denied) or not.
WriteOutcome(writeThrows) ==
  /\ writeThrows => writeFailures < MaxWriteFailures
  /\ writeFailures' = IF writeThrows THEN writeFailures + 1 ELSE writeFailures

\* The five exported functions of lib/example-fetch.ts.
FetchFns ==
  { "fetchAllAnnouncements", "fetchAnnouncementsOrdered", "fetchAnnouncementsBasic",
    "fetchAnnouncementsByMerchant", "fetchAnnouncementById" }
NotCalled == [pc |-> "idle", query |-> "none", value |-> None]

\* Before the page is opened no component is mounted and nothing was fetched.
AnnIdle ==
  /\ annPc = "unmounted"
  /\ selectedCampaign = None
  /\ campaignsList = <<>>
  /\ isLoading = TRUE
  /\ supabaseCampaigns = None
  /\ fetchCalls = 0
FetchIdle ==
  /\ supabaseUrl = None
  /\ supabaseAnonKey = None
  /\ calls = [f \in FetchFns |-> NotCalled]
TabIdle ==
  /\ tabMounted = FALSE
  /\ selectedEnrollment = None
  /\ animatingCardIds = {}
  /\ prevPositionsRef = <<>>
  /\ animJobs = <<>>

HookInit ==
  /\ mounts = 0
  /\ now = 1
  /\ stored \in StoredInputs
  /\ enrollments = <<>>
  /\ queue = <<>>
  /\ timers = <<>>
  /\ lastSave = "none"
  /\ ops = 0
  /\ writeFailures = 0

ChartIdle ==
  /\ hoveredIndex = None
  /\ tooltipPosition = None
  /\ isTooltipVisible = FALSE
  /\ tooltipTimeoutRef = None
  /\ chartTimers = <<>>
  /\ chartFrames = 0
  /\ chartNow = 1
  /\ chartEvents = 0
  /\ openedBy = 0

ToastIdle ==
  /\ toast = None
  /\ toastTimers = 0

Init == HookInit /\ AnnIdle /\ FetchIdle /\ TabIdle /\ ChartIdle /\ ToastIdle

\* useCollaborators on mount: useState(() => loadEnrollmentsFromStorage()),
\* then the save effect after the first render.  A reload drops the queued
\* updaters and the timers of the previous page.
Mount ==
  /\ UserActs
  /\ \E readThrows \in BOOLEAN, writeThrows \in BOOLEAN :
       /\ readThrows => writeThrows
       /\ WriteOutcome(writeThrows)
       /\ LET loaded == loadEnrollmentsFromStorage(stored, readThrows) IN
            /\ enrollments' = loaded
            /\ stored' = saveEnrollmentsToStorage(loaded, stored, writeThrows)
            /\ lastSave' = IF SaveThrows(loaded, writeThrows) THEN "threw" ELSE "ok"
  /\ mounts' = mounts + 1
  /\ queue' = <<>>
  /\ timers' = <<>>
  /\ UNCHANGED now

\* ------------------------------------------------------------- updaters
\* The function passed to setEnrollments, as data: which handler or timer
\* callback made it and the values its closure captured.
Updater(op, id, campaign, at, file) ==
  [op |-> op, id |-> id, campaign |-> campaign, at |-> at, file |-> file]
NoFile == [name |-> "", size |-> 0]
IdUpdater(op, id) == Updater(op, id, "", 0, NoFile)

\* Math.floor(Math.random() * range) + base, for the draws the model takes.
RandomDraws == {0, RandDen - 1}
RandomInt_nobase(range, base) == {(k * range) \div RandDen : k \in RandomDraws}
RandomInt(range, base) == {((k * range) \div RandDen) + base : k \in RandomDraws}

\* `https://snoonu.com/ref/${e.campaign.id}?c=${Date.now()}`
ReferralUrl(e, ms) == Some([campaign |-> e.campaign, c |-> ms])

\* The approved record built at lines 147-155 and 191-199.
Approved(e, ms, clicks, orders, earnings) ==
  [e EXCEPT !.status = Some("approved"),
            !.referralUrl = ReferralUrl(e, ms),
            !.clicks = Some(clicks), !.orders = Some(orders), !.earnings = Some(earnings),
            !.stats = Some([clicks |-> clicks, orders |-> orders, earnings |-> earnings])]
ApprovedChoices(e, ms, clickRange, orderRange, earningRange) ==
  {Approved(e, ms, c, o, g) : c \in RandomInt(clickRange, 100),
                              o \in RandomInt(orderRange, 10),
                              g \in RandomInt(earningRange, 50)}

\* utils: isTerminalState and nextEnrollmentState.
isTerminalState(st) == st \in {Some("approved"), Some("rejected")}
nextEnrollmentState(st) ==
  CASE st = Some("enrolled") -> Some("uploaded")
    [] st = Some("uploaded") -> Some("processing")
    [] st = Some("processing") -> Some("under-review")
    [] st = Some("under-review") -> Some("approved")
    [] OTHER -> None

\* The callbacks given to prev.map, one per updater; each yields the set of
\* records the callback may return for e (a set because of Math.random).
uploadFile_typo(u, e) ==
  IF e.id = Some(u.id)
  THEN {[e EXCEPT !.uploadedFile = Some(u.file), !.status = Some("upload")]}
  ELSE {e}
uploadFile(u, e) ==
  IF e.id = Some(u.id)
  THEN {[e EXCEPT !.uploadedFile = Some(u.file), !.status = Some("uploaded")]}
  ELSE {e}
submitForReview_all(u, e) == {[e EXCEPT !.status = Some("processing")]}
submitForReview(u, e) ==
  IF e.id = Some(u.id) THEN {[e EXCEPT !.status = Some("processing")]} ELSE {e}
reviewTimer_unguarded(u, e) ==
  IF e.id = Some(u.id)
  THEN {[e EXCEPT !.status = Some("under-review")]}
  ELSE {e}
reviewTimer(u, e) ==
  IF e.id = Some(u.id) /\ e.status = Some("processing")
  THEN {[e EXCEPT !.status = Some("under-review")]}
  ELSE {e}
approveTimer(u, e, ms) ==
  IF e.id # Some(u.id) \/ e.status # Some("under-review") THEN {e}
  ELSE ApprovedChoices(e, ms, 400, 40, 150)
advanceEnrollment_alwaysUrl(u, e, ms) ==
  IF e.id # Some(u.id) \/ isTerminalState(e.status) THEN {e}
  ELSE LET nextStatus == nextEnrollmentState(e.status) IN
       IF nextStatus = None THEN {e}
       ELSE IF nextStatus = Some("approved") THEN ApprovedChoices(e, ms, 400, 40, 150)
       ELSE {[e EXCEPT !.status = nextStatus, !.referralUrl = ReferralUrl(e, ms)]}
advanceEnrollment(u, e, ms) ==
  IF e.id # Some(u.id) \/ isTerminalState(e.status) THEN {e}
  ELSE LET nextStatus == nextEnrollmentState(e.status) IN
       IF nextStatus = None THEN {e}
       ELSE IF nextStatus = Some("approved") THEN ApprovedChoices(e, ms, 400, 40, 150)
       ELSE {[e EXCEPT !.status = nextStatus]}
advanceToApproved(u, e, ms) ==
  IF e.id # Some(u.id) THEN {e} ELSE ApprovedChoices(e, ms, 500, 50, 200)
rejectEnrollment_nospread(u, e) ==
  IF e.id = Some(u.id)
  THEN {[EmptyObject EXCEPT !.id = e.id, !.enrolledAt = e.enrolledAt,
           !.status = Some("rejected"), !.rejectionReason = Some(RejectionReason)]}
  ELSE {e}
rejectEnrollment(u, e) ==
  IF e.id = Some(u.id)
  THEN {[e EXCEPT !.status = Some("rejected"), !.rejectionReason = Some(RejectionReason)]}
  ELSE {e}

\* newEnrollment of enrollInCampaign.
NewEnrollment_withUrl(u) ==
  [EmptyObject EXCEPT
    !.id = Some(u.id), !.campaign = Some(u.campaign), !.status = Some("enrolled"),
    !.enrolledAt = DateOf(u.at), !.clicks = Some(0), !.orders = Some(0), !.earnings = Some(0),
    !.referralUrl = Some([campaign |-> Some(u.campaign), c |-> u.at])]
NewEnrollment(u) ==
  [EmptyObject EXCEPT
    !.id = Some(u.id), !.campaign = Some(u.campaign), !.status = Some("enrolled"),
    !.enrolledAt = DateOf(u.at), !.clicks = Some(0), !.orders = Some(0), !.earnings = Some(0)]

MapCallback(u, e, ms) ==
  CASE u.op = "uploadFile" -> uploadFile(u, e)
    [] u.op = "submitForReview" -> submitForReview(u, e)
    [] u.op = "reviewTimer" -> reviewTimer(u, e)
    [] u.op = "approveTimer" -> approveTimer(u, e, ms)
    [] u.op = "advanceEnrollment" -> advanceEnrollment(u, e, ms)
    [] u.op = "advanceToApproved" -> advanceToApproved(u, e, ms)
    [] u.op = "rejectEnrollment" -> rejectEnrollment(u, e)

\* prev.map(callback): every array the map may return.
RECURSIVE MapChoices(_, _, _)
MapChoices(u, prev, ms) ==
  IF prev = <<>> THEN {<<>>}
  ELSE {<<h>> \o t : h \in MapCallback(u, Head(prev), ms), t \in MapChoices(u, Tail(prev), ms)}

\* One updater applied to prev.
ApplyUpdater(u, prev, ms) ==
  IF u.op = "enrollInCampaign" THEN {Append(prev, NewEnrollment(u))}
  ELSE MapChoices(u, prev, ms)

\* React applying the queued updaters in order, each to the result of the
\* one before.
ApplyQueue_stale(q, prev, ms) ==
  IF q = <<>> THEN {prev} ELSE ApplyUpdater(q[Len(q)], prev, ms)
RECURSIVE ApplyQueue(_, _, _)
ApplyQueue(q, prev, ms) ==
  IF q = <<>> THEN {prev}
  ELSE UNION {ApplyQueue(Tail(q), mid, ms) : mid \in ApplyUpdater(Head(q), prev, ms)}

\* ----------------------------------------------------------------- actions
\* setEnrollments(updater)
SetEnrollments(u) == queue' = Append(queue, u)

\* Ids the views can pass to a handler: those of the rendered records, and
\* one that no record has.
MissingId == 0
RenderedIds == {enrollments[k].id[1] : k \in {j \in 1..Len(enrollments) : enrollments[j].id # None}}
TargetIds == RenderedIds \cup {MissingId}

EnrollInCampaign ==
  /\ mounted
  /\ UserActs
  /\ \E c \in CampaignIds :
       SetEnrollments(Updater("enrollInCampaign", DateNow, c, DateNow, NoFile))
  /\ UNCHANGED <<mounts, now, stored, enrollments, timers, lastSave, writeFailures>>

UploadFile ==
  /\ mounted
  /\ UserActs
  /\ \E id \in TargetIds, f \in Files :
       SetEnrollments(Updater("uploadFile", id, "", 0, f))
  /\ UNCHANGED <<mounts, now, stored, enrollments, timers, lastSave, writeFailures>>

\* setTimeout(callback, delay)
Timer(op, id, delay) == [op |-> op, id |-> id, due |-> DateNow + delay]

SubmitForReview ==
  /\ mounted
  /\ UserActs
  /\ DateNow + APPROVE_DELAY <= MaxNow * REVIEW_DELAY
  /\ \E id \in TargetIds :
       /\ SetEnrollments(IdUpdater("submitForReview", id))
       /\ timers' = timers \o <<Timer("reviewTimer", id, REVIEW_DELAY),
                                Timer("approveTimer", id, APPROVE_DELAY)>>
  /\ UNCHANGED <<mounts, now, stored, enrollments, lastSave, writeFailures>>

AdvanceEnrollment ==
  /\ mounted
  /\ UserActs
  /\ \E id \in TargetIds : SetEnrollments(IdUpdater("advanceEnrollment", id))
  /\ UNCHANGED <<mounts, now, stored, enrollments, timers, lastSave, writeFailures>>

AdvanceToApproved ==
  /\ mounted
  /\ UserActs
  /\ \E id \in TargetIds : SetEnrollments(IdUpdater("advanceToApproved", id))
  /\ UNCHANGED <<mounts, now, stored, enrollments, timers, lastSave, writeFailures>>

RejectEnrollment ==
  /\ mounted
  /\ UserActs
  /\ \E id \in TargetIds : SetEnrollments(IdUpdater("rejectEnrollment", id))
  /\ UNCHANGED <<mounts, now, stored, enrollments, timers, lastSave, writeFailures>>

\* The timer the event loop runs next: the earliest due, the first scheduled
\* among equals.
NextTimer ==
  CHOOSE k \in 1..Len(timers) :
    \A j \in 1..Len(timers) :
      \/ timers[k].due < timers[j].due
      \/ timers[k].due = timers[j].due /\ k <= j
RemoveAt(s, k) == SubSeq(s, 1, k - 1) \o SubSeq(s, k + 1, Len(s))

\* The callback that runs also clears the other timers of its enrollment.
TimerFires_cancels ==
  /\ mounted
  /\ timers # <<>>
  /\ timers[NextTimer].due <= DateNow
  /\ SetEnrollments(IdUpdater(timers[NextTimer].op, timers[NextTimer].id))
  /\ timers' = SelectSeq(timers, LAMBDA t : t.id # timers[NextTimer].id)
  /\ UNCHANGED <<mounts, now, stored, enrollments, lastSave, ops, writeFailures>>

\* A setTimeout callback of submitForReview runs.
TimerFires ==
  /\ mounted
  /\ timers # <<>>
  /\ timers[NextTimer].due <= DateNow
  /\ SetEnrollments(IdUpdater(timers[NextTimer].op, timers[NextTimer].id))
  /\ timers' = RemoveAt(timers, NextTimer)
  /\ UNCHANGED <<mounts, now, stored, enrollments, lastSave, ops, writeFailures>>

\* Render with an effect that runs on mount only.
Render_nosave ==
  /\ mounted
  /\ queue # <<>>
  /\ enrollments' \in ApplyQueue(queue, enrollments, DateNow)
  /\ queue' = <<>>
  /\ UNCHANGED <<mounts, now, timers, ops, stored, lastSave, writeFailures>>

\* React renders: the queued updaters are applied, and because the array
\* changed the effect at lines 91-93 saves it.
Render ==
  /\ mounted
  /\ queue # <<>>
  /\ \E next \in ApplyQueue(queue, enrollments, DateNow), writeThrows \in BOOLEAN :
       /\ WriteOutcome(writeThrows)
       /\ enrollments' = next
       /\ stored' = saveEnrollmentsToStorage(next, stored, writeThrows)
       /\ lastSave' = IF SaveThrows(next, writeThrows) THEN "threw" ELSE "ok"
  /\ queue' = <<>>
  /\ UNCHANGED <<mounts, now, timers, ops>>

\* Time passes.  Renders and due timers run first.
Tick ==
  /\ mounted
  /\ now < MaxNow
  /\ queue = <<>>
  /\ \A k \in 1..Len(timers) : timers[k].due > DateNow
  /\ now' = now + 1
  /\ UNCHANGED <<mounts, stored, enrollments, queue, timers, lastSave, ops, writeFailures>>

\* A step of the hook leaves the components outside it as they are.
Hook(A) == A /\ UNCHANGED viewVars

Next ==
  \/ Hook(Mount)
  \/ Hook(EnrollInCampaign)
  \/ Hook(UploadFile)
  \/ Hook(SubmitForReview)
  \/ Hook(AdvanceEnrollment)
  \/ Hook(AdvanceToApproved)
  \/ Hook(RejectEnrollment)
  \/ Hook(TimerFires)
  \/ Hook(Render)
  \/ Hook(Tick)

Spec == Init /\ [][Next]_allVars

\* The page is opened on a browser that holds nothing under the key.
InitEmpty == Init /\ stored = Absent
SpecEmpty == InitEmpty /\ [][Next]_allVars

\* An id is busy while a timer or a queued updater refers to it.
Busy(id) ==
  \/ \E k \in 1..Len(timers) : timers[k].id = id
  \/ \E k \in 1..Len(queue) : queue[k].id = id

\* The environment of the review pipeline left alone: the page is not
\* reloaded, and no handler is called for an enrollment that has timers
\* pending or an update waiting for the render.  Handlers for other
\* enrollments are called freely.
LeftAlone ==
  /\ mounts' # mounts => mounts = 0
  /\ (ops' # ops /\ mounts' = mounts) => ~Busy(queue'[Len(queue')].id)
LiveNext ==
  \/ Hook(Mount) /\ LeftAlone
  \/ Hook(EnrollInCampaign) /\ LeftAlone
  \/ Hook(UploadFile) /\ LeftAlone
  \/ Hook(SubmitForReview) /\ LeftAlone
  \/ Hook(AdvanceEnrollment) /\ LeftAlone
  \/ Hook(AdvanceToApproved) /\ LeftAlone
  \/ Hook(RejectEnrollment) /\ LeftAlone
  \/ Hook(TimerFires) /\ LeftAlone
  \/ Hook(Render) /\ LeftAlone
  \/ Hook(Tick) /\ LeftAlone

\* The event loop runs due timers, React renders queued updates, and time
\* passes.
LiveSpec ==
  /\ Init
  /\ [][LiveNext]_allVars
  /\ WF_allVars(Hook(TimerFires) /\ LeftAlone)
  /\ WF_allVars(Hook(Render) /\ LeftAlone)
  /\ WF_allVars(Hook(Tick) /\ LeftAlone)

\* ------------------------------------------------------ AnnouncementsTab
\* What fetchCampaigns may resolve with: the rows of the database, in the
\* database's order.
FetchedLists == { <<>>, <<"c2">>, <<"c2", "c1">> }

\* The tab mounts: the useState initial values, then the effect calls
\* loadCampaigns, which runs up to its first await.
AnnMount ==
  /\ mounted
  /\ UserActs
  /\ annPc' = "test"
  /\ selectedCampaign' = None
  /\ campaignsList' = Campaigns
  /\ isLoading' = TRUE
  /\ supabaseCampaigns' = None
  /\ fetchCalls' = 0
  /\ UNCHANGED <<mounts, now, stored, enrollments, queue, timers, lastSave, writeFailures>>

\* await testSupabaseConnection() settles: resolved with either boolean the
\* function goes on to call fetchCampaigns, rejected it enters the catch.
TestSettles ==
  /\ annPc = "test"
  /\ \E outcome \in {"true", "false", "reject"} :
       IF outcome = "reject"
       THEN annPc' = "catch" /\ fetchCalls' = fetchCalls
       ELSE annPc' = "fetch" /\ fetchCalls' = fetchCalls + 1
  /\ UNCHANGED <<selectedCampaign, campaignsList, isLoading, supabaseCampaigns>>
  /\ UNCHANGED vars

\* await fetchCampaigns() settles.
FetchSettles_retries ==
  /\ annPc = "fetch"
  /\ \/ \E rows \in FetchedLists :
          supabaseCampaigns' = Some(rows) /\ annPc' = "then" /\ fetchCalls' = fetchCalls
     \/ /\ supabaseCampaigns' = supabaseCampaigns
        /\ IF fetchCalls < 2
           THEN annPc' = "fetch" /\ fetchCalls' = fetchCalls + 1
           ELSE annPc' = "catch" /\ fetchCalls' = fetchCalls
  /\ UNCHANGED <<selectedCampaign, campaignsList, isLoading>>
  /\ UNCHANGED vars
FetchSettles ==
  /\ annPc = "fetch"
  /\ \/ \E rows \in FetchedLists : supabaseCampaigns' = Some(rows) /\ annPc' = "then"
     \/ supabaseCampaigns' = supabaseCampaigns /\ annPc' = "catch"
  /\ UNCHANGED <<selectedCampaign, campaignsList, isLoading, fetchCalls>>
  /\ UNCHANGED vars

\* The setCampaignsList call of the try block or of the catch block.  The
\* call and the setIsLoading of the finally block are two steps: outside
\* an event handler React may render between them.
SetCampaignsList_keeps ==
  /\ \/ /\ annPc = "then"
        /\ campaignsList' = IF Len(supabaseCampaigns[1]) > 0 THEN supabaseCampaigns[1] ELSE <<>>
     \/ /\ annPc = "catch"
        /\ campaignsList' = campaignsList
  /\ annPc' = "finally"
  /\ UNCHANGED <<selectedCampaign, isLoading, supabaseCampaigns, fetchCalls>>
  /\ UNCHANGED vars
SetCampaignsList ==
  /\ \/ /\ annPc = "then"
        /\ campaignsList' = IF Len(supabaseCampaigns[1]) > 0 THEN supabaseCampaigns[1] ELSE <<>>
     \/ /\ annPc = "catch"
        /\ campaignsList' = <<>>
  /\ annPc' = "finally"
  /\ UNCHANGED <<selectedCampaign, isLoading, supabaseCampaigns, fetchCalls>>
  /\ UNCHANGED vars

\* finally { setIsLoading(false) }
Finally ==
  /\ annPc = "finally"
  /\ isLoading' = FALSE
  /\ annPc' = "done"
  /\ UNCHANGED <<selectedCampaign, campaignsList, supabaseCampaigns, fetchCalls>>
  /\ UNCHANGED vars

\* What the tab renders: the cards of campaignsList, unless it is loading.
DisplayedCampaigns == IF annPc = "unmounted" \/ isLoading THEN <<>> ELSE campaignsList

\* A card is clicked, the modal is closed.
CampaignClick ==
  /\ \E k \in 1..Len(DisplayedCampaigns) : selectedCampaign' = Some(DisplayedCampaigns[k])
  /\ UNCHANGED <<annPc, campaignsList, isLoading, supabaseCampaigns, fetchCalls>>
  /\ UNCHANGED vars
CloseCampaignModal ==
  /\ DisplayedCampaigns # <<>>
  /\ selectedCampaign # None
  /\ selectedCampaign' = None
  /\ UNCHANGED <<annPc, campaignsList, isLoading, supabaseCampaigns, fetchCalls>>
  /\ UNCHANGED vars

\* handleEnroll: the modal's button passes the selected campaign to onEnroll,
\* which is the hook's enrollInCampaign.
HandleEnroll ==
  /\ DisplayedCampaigns # <<>>
  /\ selectedCampaign # None
  /\ EnrollInCampaign
  /\ queue'[Len(queue')].campaign = selectedCampaign[1]
  /\ UNCHANGED annVars

\* The page is reloaded: every component of the old page is gone.
AnnPageLoad ==
  /\ Mount
  /\ annPc' = "unmounted"
  /\ selectedCampaign' = None
  /\ campaignsList' = <<>>
  /\ isLoading' = TRUE
  /\ supabaseCampaigns' = None
  /\ fetchCalls' = 0

\* A step of the tab leaves the other components as they are.
Ann(A) == A /\ UNCHANGED <<fetchVars, tabVars, chartVars, toastVars>>

AnnNext ==
  \/ Ann(AnnPageLoad)
  \/ Ann(AnnMount)
  \/ Ann(TestSettles)
  \/ Ann(FetchSettles)
  \/ Ann(SetCampaignsList)
  \/ Ann(Finally)
  \/ Ann(CampaignClick)
  \/ Ann(CloseCampaignModal)
  \/ Ann(HandleEnroll)
  \/ Hook(Render)

AnnSpec == InitEmpty /\ [][AnnNext]_allVars

\* The promises of the network layer settle and the continuations of
\* loadCampaigns run.
AnnLiveSpec ==
  /\ InitEmpty
  /\ [][AnnNext]_allVars
  /\ WF_allVars(Ann(TestSettles))
  /\ WF_allVars(Ann(FetchSettles))
  /\ WF_allVars(Ann(SetCampaignsList))
  /\ WF_allVars(Ann(Finally))

\* ------------------------------------------------ lib/example-fetch.ts
\* import.meta.env values: undefined, the empty string or a non-empty string.
EnvValues == { None, Some(""), Some("set") }
Truthy(v) == v # None /\ v # Some("")

\* lib/supabase.ts: the client, or null when a credential is missing.
supabase == IF Truthy(supabaseUrl) /\ Truthy(supabaseAnonKey) THEN Some("client") ELSE None
isSupabaseConfigured == supabase # None

\* What a fetch function returns: null or the data of the query.
Null == [t |-> "null", rows |-> <<>>]
Data(rows) == [t |-> "data", rows |-> rows]
\* The data a query may come back with; .single() yields one row.
QueryData(f) ==
  IF f = "fetchAnnouncementById" THEN { <<"a1">> } ELSE { <<>>, <<"a1">>, <<"a1", "a2">> }

Returned(query, value) == [pc |-> "returned", query |-> query, value |-> Some(value)]
\* catch (error) { console.error(...); return null }
Catch_rethrows(query) == [pc |-> "rejected", query |-> query, value |-> None]
Catch(query) == Returned(query, Null)

\* A fetch function is called and runs up to its await.  On a null client
\* `supabase!.schema` throws a TypeError inside the try block.
FetchCall ==
  /\ \E f \in FetchFns :
       /\ calls[f].pc # "awaiting"
       /\ calls' = [calls EXCEPT ![f] =
            IF supabase = None THEN Catch("noclient")
            ELSE [pc |-> "awaiting", query |-> "none", value |-> None]]
  /\ UNCHANGED <<supabaseUrl, supabaseAnonKey>>

\* The awaited query settles: { data, error } with or without an error, or
\* a rejection.
QuerySettles ==
  /\ \E f \in FetchFns :
       /\ calls[f].pc = "awaiting"
       /\ \/ \E rows \in QueryData(f) : calls' = [calls EXCEPT ![f] = Returned("data", Data(rows))]
          \/ calls' = [calls EXCEPT ![f] = Returned("error", Null)]
          \/ calls' = [calls EXCEPT ![f] = Catch("throws")]
  /\ UNCHANGED <<supabaseUrl, supabaseAnonKey>>

\* The module is loaded with whatever the build environment holds.
FetchInit ==
  /\ HookInit /\ stored = Absent
  /\ AnnIdle
  /\ TabIdle
  /\ ChartIdle
  /\ ToastIdle
  /\ supabaseUrl \in EnvValues
  /\ supabaseAnonKey \in EnvValues
  /\ calls = [f \in FetchFns |-> NotCalled]

FetchNext ==
  \/ FetchCall /\ UNCHANGED <<vars, annVars, tabVars, chartVars, toastVars>>
  \/ QuerySettles /\ UNCHANGED <<vars, annVars, tabVars, chartVars, toastVars>>

FetchSpec == FetchInit /\ [][FetchNext]_allVars

\* -------------------------------------------------------- EnrollmentsTab
statusPriority(st) ==
  CASE st = Some("approved") -> 6
    [] st = Some("under-review") -> 5
    [] st = Some("processing") -> 4
    [] st = Some("uploaded") -> 3
    [] st = Some("enrolled") -> 2
    [] st = Some("rejected") -> 1

\* The comparator given to sort: negative when a goes before b.
Compare_oldestFirst(a, b) ==
  LET priorityDiff == statusPriority(b.status) - statusPriority(a.status) IN
    IF priorityDiff # 0 THEN priorityDiff ELSE a.enrolledAt.v - b.enrolledAt.v
Compare(a, b) ==
  LET priorityDiff == statusPriority(b.status) - statusPriority(a.status) IN
    IF priorityDiff # 0 THEN priorityDiff ELSE b.enrolledAt.v - a.enrolledAt.v

\* Array.prototype.sort on a copy, as the indexes of the elements in their
\* new order.  The sort is stable: an element goes behind the earlier
\* elements it does not have to precede.
Insert(perm, i, enrs) ==
  LET pos == Cardinality({k \in 1..Len(perm) : Compare(enrs[perm[k]], enrs[i]) <= 0}) IN
    SubSeq(perm, 1, pos) \o <<i>> \o SubSeq(perm, pos + 1, Len(perm))
RECURSIVE SortPrefix(_, _)
SortPrefix(enrs, n) == IF n = 0 THEN <<>> ELSE Insert(SortPrefix(enrs, n - 1), n, enrs)
SortedIndexes(enrs) == SortPrefix(enrs, Len(enrs))
Sorted(enrs) == [k \in 1..Len(enrs) |-> enrs[SortedIndexes(enrs)[k]]]
sortedEnrollments == Sorted(enrollments)

\* The Map the effect fills with forEach((enrollment, index) => set(id, index)):
\* a later card with the same id overwrites the index of an earlier one.
Positions(sorted) ==
  [id \in {sorted[k].id : k \in 1..Len(sorted)} |->
     CHOOSE k \in 1..Len(sorted) :
       /\ sorted[k].id = id
       /\ \A j \in 1..Len(sorted) : sorted[j].id = id => j <= k]

\* cardsToAnimate: the ids with a previous index and another new index.
CardsToAnimate(prev, new) ==
  {id \in DOMAIN new : id \in DOMAIN prev /\ prev[id] # new[id]}

\* The effect on [sortedEnrollments], run after a render that shows sorted.
Effect(sorted) ==
  IF DOMAIN prevPositionsRef = {}
  THEN /\ prevPositionsRef' = Positions(sorted)
       /\ UNCHANGED <<animatingCardIds, animJobs>>
  ELSE LET newPositions == Positions(sorted)
           cardsToAnimate == CardsToAnimate(prevPositionsRef, newPositions) IN
         /\ IF cardsToAnimate # {}
            THEN /\ animatingCardIds' = cardsToAnimate
                 /\ animJobs' = Append(animJobs, "frame1")
            ELSE UNCHANGED <<animatingCardIds, animJobs>>
         /\ prevPositionsRef' = newPositions

\* The user opens the tab: the component mounts, renders and runs the
\* effect for the first time.
TabMount ==
  /\ mounted
  /\ ~tabMounted
  /\ tabMounted' = TRUE
  /\ selectedEnrollment' = None
  /\ animatingCardIds' = {}
  /\ prevPositionsRef' = Positions(sortedEnrollments)
  /\ animJobs' = <<>>
  /\ UserActs
  /\ UNCHANGED <<mounts, now, stored, enrollments, queue, timers, lastSave, writeFailures>>

\* The user leaves the tab: the component and its state are gone, and the
\* callbacks still pending find nothing to update.
TabUnmount ==
  /\ tabMounted
  /\ tabMounted' = FALSE
  /\ selectedEnrollment' = None
  /\ animatingCardIds' = {}
  /\ prevPositionsRef' = <<>>
  /\ animJobs' = <<>>
  /\ UserActs
  /\ UNCHANGED <<mounts, now, stored, enrollments, queue, timers, lastSave, writeFailures>>

\* The record the modal is given.
currentEnrollment_snapshot == selectedEnrollment
currentEnrollment ==
  IF selectedEnrollment = None THEN None
  ELSE LET found == {k \in 1..Len(sortedEnrollments) :
                       sortedEnrollments[k].id = selectedEnrollment[1].id} IN
       IF found = {} THEN None
       ELSE Some(sortedEnrollments[CHOOSE k \in found : \A j \in found : k <= j])

\* A card is clicked; the modal is closed.
CardClick ==
  /\ tabMounted
  /\ \E k \in 1..Len(sortedEnrollments) : selectedEnrollment' = Some(sortedEnrollments[k])
  /\ UNCHANGED <<tabMounted, animatingCardIds, prevPositionsRef, animJobs>>
  /\ UserActs
  /\ UNCHANGED <<mounts, now, stored, enrollments, queue, timers, lastSave, writeFailures>>
CloseModal ==
  /\ tabMounted
  /\ currentEnrollment # None
  /\ selectedEnrollment' = None
  /\ UNCHANGED <<tabMounted, animatingCardIds, prevPositionsRef, animJobs>>
  /\ UserActs
  /\ UNCHANGED <<mounts, now, stored, enrollments, queue, timers, lastSave, writeFailures>>

\* The modal's upload and submit: onUpload(currentEnrollment.id, file) and
\* onSubmit(currentEnrollment.id), which are the hook's uploadFile and
\* submitForReview.
ModalUpload ==
  /\ tabMounted
  /\ currentEnrollment # None
  /\ UploadFile
  /\ Some(queue'[Len(queue')].id) = currentEnrollment[1].id
  /\ UNCHANGED tabVars
ModalSubmit ==
  /\ tabMounted
  /\ currentEnrollment # None
  /\ SubmitForReview
  /\ Some(queue'[Len(queue')].id) = currentEnrollment[1].id
  /\ UNCHANGED tabVars

\* The hook renders; a mounted tab renders with it and runs its effect.
TabRender ==
  /\ Render
  /\ IF tabMounted THEN Effect(Sorted(enrollments')) /\ UNCHANGED <<tabMounted, selectedEnrollment>>
     ELSE UNCHANGED tabVars

\* The callbacks an animation has pending run in turn: the two animation
\* frames, then the timeout, which empties the set of animating cards.  A
\* callback does not run before the same callback of an earlier animation.
JobRank(job) == CASE job = "frame1" -> 1 [] job = "frame2" -> 2 [] job = "timeout" -> 3
AnimStep ==
  /\ tabMounted
  /\ \E k \in 1..Len(animJobs) :
       /\ \A j \in 1..(k - 1) : JobRank(animJobs[j]) > JobRank(animJobs[k])
       /\ CASE animJobs[k] = "frame1" ->
                 animJobs' = [animJobs EXCEPT ![k] = "frame2"] /\ UNCHANGED animatingCardIds
            [] animJobs[k] = "frame2" ->
                 animJobs' = [animJobs EXCEPT ![k] = "timeout"] /\ UNCHANGED animatingCardIds
            [] animJobs[k] = "timeout" ->
                 animJobs' = RemoveAt(animJobs, k) /\ animatingCardIds' = {}
  /\ UNCHANGED <<tabMounted, selectedEnrollment, prevPositionsRef>>
  /\ UNCHANGED vars

\* The page is loaded: the tab of the old page is gone.
TabPageLoad ==
  /\ Mount
  /\ tabMounted' = FALSE
  /\ selectedEnrollment' = None
  /\ animatingCardIds' = {}
  /\ prevPositionsRef' = <<>>
  /\ animJobs' = <<>>

\* A second record as an earlier session stored it.
StoredRecord2 ==
  JsonObject([EmptyObject EXCEPT
    !.id = Some(2), !.campaign = Some("c2"), !.status = Some("enrolled"),
    !.enrolledAt = IsoString(2),
    !.clicks = Some(0), !.orders = Some(0), !.earnings = Some(0)])
TabStoredInputs ==
  { Absent,
    StoredValue("array", <<StoredRecord>>),
    StoredValue("array", <<StoredRecord, StoredRecord2>>) }

TabInit ==
  /\ mounts = 0
  /\ now = 1
  /\ stored \in TabStoredInputs
  /\ enrollments = <<>>
  /\ queue = <<>>
  /\ timers = <<>>
  /\ lastSave = "none"
  /\ ops = 0
  /\ writeFailures = MaxWriteFailures  \* every write succeeds; Spec has the failures
  /\ AnnIdle /\ FetchIdle /\ TabIdle /\ ChartIdle /\ ToastIdle

\* A step of the tab, or of the hook under it, leaves the other components
\* as they are.
Tab(A) == A /\ UNCHANGED <<annVars, fetchVars, chartVars, toastVars>>

TabNext ==
  \/ Tab(TabPageLoad)
  \/ Tab(TabMount)
  \/ Tab(TabUnmount)
  \/ Tab(CardClick)
  \/ Tab(CloseModal)
  \/ Tab(ModalUpload)
  \/ Tab(ModalSubmit)
  \/ Tab(TabRender)
  \/ Tab(AnimStep)
  \/ Hook(EnrollInCampaign)
  \/ Hook(AdvanceToApproved)
  \/ Hook(RejectEnrollment)
  \/ Hook(TimerFires)
  \/ Hook(Tick) /\ animJobs = <<>>

TabSpec == TabInit /\ [][TabNext]_allVars

\* -------------------------------------------------------------- AreaChart
\* The points of the chart, by index into data.
PointIndexes == {0, 1}
ChartTimeMs == chartNow * FADE_DELAY

\* A mouse event arrives at a point.
ChartEvent ==
  /\ chartEvents < MaxOps
  /\ chartEvents' = chartEvents + 1

\* clearTimeout(id)
ClearTimeout(pending, id) == SelectSeq(pending, LAMBDA t : t.id # id)

\* handlePointHover(index).  The refs are set once the chart has rendered
\* the points, so the first return is not taken; getScreenCTM() may yield
\* null, after the pending timeout was cleared.
handlePointHover ==
  /\ ChartEvent
  /\ \E index \in PointIndexes, ctm \in {"null", "matrix"} :
       /\ chartTimers' = IF tooltipTimeoutRef # None
                         THEN ClearTimeout(chartTimers, tooltipTimeoutRef[1])
                         ELSE chartTimers
       /\ tooltipTimeoutRef' = None
       /\ IF ctm = "null"
          THEN UNCHANGED <<hoveredIndex, tooltipPosition, chartFrames, openedBy>>
          ELSE /\ hoveredIndex' = Some(index)
               /\ tooltipPosition' = Some(index)
               /\ chartFrames' = chartFrames + 1
               /\ openedBy' = chartEvents'
  /\ UNCHANGED <<isTooltipVisible, chartNow>>

\* handlePointLeave: the new timeout's id replaces the one in the ref.
handlePointLeave ==
  /\ ChartEvent
  /\ isTooltipVisible' = FALSE
  /\ chartTimers' = Append(chartTimers, [id |-> chartEvents', due |-> ChartTimeMs + FADE_DELAY])
  /\ tooltipTimeoutRef' = Some(chartEvents')
  /\ UNCHANGED <<hoveredIndex, tooltipPosition, chartFrames, chartNow, openedBy>>

\* The callback of the earliest pending timeout runs.
FadeTimerFires ==
  /\ chartTimers # <<>>
  /\ chartTimers[1].due <= ChartTimeMs
  /\ hoveredIndex' = None
  /\ tooltipPosition' = None
  /\ tooltipTimeoutRef' = None
  /\ chartTimers' = Tail(chartTimers)
  /\ UNCHANGED <<isTooltipVisible, chartFrames, chartNow, chartEvents, openedBy>>

\* requestAnimationFrame(() => setIsTooltipVisible(true))
FrameFires ==
  /\ chartFrames > 0
  /\ chartFrames' = chartFrames - 1
  /\ isTooltipVisible' = TRUE
  /\ UNCHANGED <<hoveredIndex, tooltipPosition, tooltipTimeoutRef, chartTimers, chartNow,
                 chartEvents, openedBy>>

\* FADE_DELAY ms pass.  Frames and due timeouts run first.
ChartTick ==
  /\ chartNow < MaxNow
  /\ chartFrames = 0
  /\ \A k \in 1..Len(chartTimers) : chartTimers[k].due > ChartTimeMs
  /\ chartNow' = chartNow + 1
  /\ UNCHANGED <<hoveredIndex, tooltipPosition, isTooltipVisible, tooltipTimeoutRef,
                 chartTimers, chartFrames, chartEvents, openedBy>>

Chart(A) == A /\ UNCHANGED <<vars, annVars, fetchVars, tabVars, toastVars>>

ChartNext ==
  \/ Chart(handlePointHover)
  \/ Chart(handlePointLeave)
  \/ Chart(FadeTimerFires)
  \/ Chart(FrameFires)
  \/ Chart(ChartTick)

ChartSpec == InitEmpty /\ [][ChartNext]_allVars

\* ------------------------------------------------- enrollSampleCampaign
\* showToast(message, type): the toast is set and a timer to clear it starts.
ShowToast(message, type) ==
  /\ toast' = Some([message |-> message, type |-> type])
  /\ toastTimers' = toastTimers + 1

\* campaigns.filter(c => !enrollments.some(e => e.campaign.id === c.id)),
\* with the enrollments of the render the callback was made in.
unenrolledCampaigns ==
  SelectSeq(Campaigns,
            LAMBDA c : ~\E k \in 1..Len(enrollments) : enrollments[k].campaign = Some(c))

\* enrollSampleCampaign(), the enrollInCampaign it calls included.
enrollSampleCampaign ==
  /\ mounted
  /\ UserActs
  /\ IF Len(unenrolledCampaigns) > 0
     THEN /\ SetEnrollments(Updater("enrollInCampaign", DateNow, unenrolledCampaigns[1],
                                    DateNow, NoFile))
          /\ ShowToast("Enrolled in merchant!", "success")
     ELSE /\ ShowToast("All campaigns already enrolled!", "info")
          /\ UNCHANGED queue
  /\ UNCHANGED <<mounts, now, stored, enrollments, timers, lastSave, writeFailures>>

\* The callback of a toast timer: setToast(null).
ToastTimerFires ==
  /\ toastTimers > 0
  /\ toastTimers' = toastTimers - 1
  /\ toast' = None
  /\ UNCHANGED vars

\* A page load starts with no toast and no timer of the previous page.
SamplePageLoad == Mount /\ toast' = None /\ toastTimers' = 0

\* The toast timers (3000 ms) run before REVIEW_DELAY ms have passed.
SampleTick == Tick /\ toastTimers = 0 /\ UNCHANGED toastVars

Sample(A) == A /\ UNCHANGED <<annVars, fetchVars, tabVars, chartVars>>

SampleNext ==
  \/ Sample(SamplePageLoad)
  \/ Sample(enrollSampleCampaign)
  \/ Sample(ToastTimerFires)
  \/ Sample(SampleTick)
  \/ Hook(Render)

SampleSpec == InitEmpty /\ [][SampleNext]_allVars

\* ------------------------------------------------------------ properties
StatusOf(k) == enrollments[k].status
StatusIn(e, set) == \E st \in set : e.status = Some(st)
TerminalStatuses == {"approved", "rejected"}
ChainSteps ==
  { <<Some("enrolled"), Some("uploaded")>>,
    <<Some("uploaded"), Some("processing")>>,
    <<Some("processing"), Some("under-review")>>,
    <<Some("under-review"), Some("approved")>>,
    <<Some("under-review"), Some("rejected")>> }

\* A step of the mounted hook: a handler call, a timer callback, a render or
\* the passing of time, but not a page load.
HookStep == mounts' = mounts

\* C1: once an enrollment's status is approved or rejected, no handler and
\* no timer callback changes it.
C1_TerminalStatusKept ==
  [][HookStep =>
       \A k \in 1..Len(enrollments) :
         StatusIn(enrollments[k], TerminalStatuses) =>
           /\ k <= Len(enrollments')
           /\ enrollments'[k].status = enrollments[k].status]_vars

\* C2: every change of an enrollment's status is one step of the chain
\* enrolled -> uploaded -> processing -> under-review -> approved | rejected.
C2_LinearChain ==
  [][HookStep =>
       \A k \in 1..Len(enrollments) :
         (k <= Len(enrollments') /\ enrollments'[k].status # enrollments[k].status) =>
           <<enrollments[k].status, enrollments'[k].status>> \in ChainSteps]_vars

\* The timer list only grows at its end, except that the event loop takes
\* out a due timer and runs its callback.
TimersKept ==
  \/ /\ Len(timers') >= Len(timers)
     /\ SubSeq(timers', 1, Len(timers)) = timers
  \/ \E j \in 1..Len(timers) :
       /\ timers' = RemoveAt(timers, j)
       /\ timers[j].due <= DateNow
       /\ queue' = Append(queue, IdUpdater(timers[j].op, timers[j].id))

HasTimer(op, id) == \E j \in 1..Len(timers) : timers[j].op = op /\ Some(timers[j].id) = id
Queued(op, id) == \E j \in 1..Len(queue) : queue[j].op = op /\ Some(queue[j].id) = id
\* Record k is in the pipeline submitForReview started for it: the submit
\* has been rendered and its timers are pending.
Submitted(k) ==
  /\ k \in 1..Len(enrollments)
  /\ ~Queued("submitForReview", enrollments[k].id)
  /\ StatusIn(enrollments[k], {"processing", "under-review"})
  /\ HasTimer("approveTimer", enrollments[k].id)
  /\ StatusOf(k) = Some("processing") => HasTimer("reviewTimer", enrollments[k].id)
ApprovedWithUrl(k) ==
  /\ k \in 1..Len(enrollments)
  /\ StatusOf(k) = Some("approved")
  /\ enrollments[k].referralUrl # None

\* C3: no step of the mounted hook drops a pending timer, and an enrollment
\* submitted for review and then left alone becomes under-review when its
\* review timer runs and approved, with a referral URL, when its approve
\* timer runs.
C3_SubmittedGetsApproved ==
  /\ [][HookStep => TimersKept]_vars
  /\ [][\A k \in 1..Len(enrollments) :
          (HookStep /\ Submitted(k) /\ enrollments'[k] # enrollments[k]) =>
            \/ StatusOf(k) = Some("processing") /\ enrollments'[k].status = Some("under-review")
            \/ StatusOf(k) = Some("under-review") /\ ApprovedWithUrl(k)']_vars
  /\ \A k \in 1..MaxOps : Submitted(k) ~> ApprovedWithUrl(k)
\* The approve timer has approved one record (its statistics lie outside
\* what advanceToApproved draws) while another record was uploaded to.
C3_Witness ==
  /\ Len(enrollments) = 2
  /\ timers = <<>>
  /\ ApprovedWithUrl(1)
  /\ enrollments[1].clicks \in {Some(c) : c \in RandomInt(400, 100) \ RandomInt(500, 100)}
  /\ StatusOf(2) = Some("uploaded")
  /\ enrollments[2].id # enrollments[1].id

\* C4: a step of the mounted hook keeps every record in place with its id,
\* campaign and enrolledAt; the array grows only at a render, by one record
\* per enrollInCampaign call since the last render.
EnrollCalls(q) == Cardinality({k \in 1..Len(q) : q[k].op = "enrollInCampaign"})
C4_RecordsKept ==
  [][HookStep =>
       /\ Len(enrollments') =
            Len(enrollments) + (IF queue' = <<>> THEN EnrollCalls(queue) ELSE 0)
       /\ \A k \in 1..Len(enrollments) :
            /\ enrollments'[k].id = enrollments[k].id
            /\ enrollments'[k].campaign = enrollments[k].campaign
            /\ enrollments'[k].enrolledAt = enrollments[k].enrolledAt]_vars
C4_Witness ==
  /\ Len(enrollments) = 2
  /\ StatusOf(1) = Some("rejected")
  /\ StatusOf(2) = Some("approved")
  /\ enrollments[2].campaign = Some("c2")

\* Ids of the records held in a stored value.
StoredIds(st) ==
  IF st.kind # "array" THEN {}
  ELSE {st.items[k].o.id : k \in {j \in 1..Len(st.items) : st.items[j].t = "object"}}

\* C5: no mount, load or save of the hook removes a stored record from the
\* value under the key.
C5_StoredRecordsKept == [][StoredIds(stored) \subseteq StoredIds(stored')]_vars

\* The stored value is a JSON array that holds, in order, one object per
\* record of the array, with the record's properties and the ISO form of
\* its enrolledAt.
MirrorsRecord(x, e) ==
  /\ x.t = "object"
  /\ x.o.id = e.id /\ x.o.campaign = e.campaign /\ x.o.status = e.status
  /\ x.o.enrolledAt.t = "string" /\ e.enrolledAt.t = "Date"
  /\ x.o.enrolledAt.v = e.enrolledAt.v /\ e.enrolledAt.v # NaN
  /\ x.o.uploadedFile = e.uploadedFile /\ x.o.referralUrl = e.referralUrl
  /\ x.o.clicks = e.clicks /\ x.o.orders = e.orders /\ x.o.earnings = e.earnings
  /\ x.o.stats = e.stats /\ x.o.rejectionReason = e.rejectionReason
StoredMirrors(st, enrs) ==
  /\ st.kind = "array"
  /\ Len(st.items) = Len(enrs)
  /\ \A k \in 1..Len(enrs) : MirrorsRecord(st.items[k], enrs[k])

\* C6: once the save effect has run and the write went through, the value
\* under the key is the serialization of the current enrollments array.
C6_StoredMirrorsState == (mounted /\ lastSave = "ok") => StoredMirrors(stored, enrollments)
C6_Witness ==
  /\ lastSave = "ok"
  /\ writeFailures > 0
  /\ Len(enrollments) = 2
  /\ StatusOf(1) = Some("approved")
  /\ StatusOf(2) = Some("enrolled")

\* A record as the hook's own operations make it: a valid instant.
HookMade(enrs) == \A k \in 1..Len(enrs) : enrs[k].enrolledAt.t = "Date" /\ enrs[k].enrolledAt.v # NaN

\* C7: loading what was saved gives back the same records in the same
\* order, so the value a successful save left makes a remount start from the
\* current array.
C7_SaveLoadRoundTrip ==
  mounted =>
    /\ HookMade(enrollments) =>
         loadEnrollmentsFromStorage(saveEnrollmentsToStorage(enrollments, Absent, FALSE), FALSE)
           = enrollments
    /\ lastSave = "ok" => loadEnrollmentsFromStorage(stored, FALSE) = enrollments
C7_Witness ==
  /\ lastSave = "ok"
  /\ Len(enrollments) = 2
  /\ StatusOf(1) = Some("rejected") /\ enrollments[1].referralUrl # None
  /\ enrollments[1].uploadedFile # None
  /\ enrollments[2].enrolledAt = DateOf(2 * REVIEW_DELAY)

\* C8: from empty storage, every record's status is one of the six.
C8_StatusInClosedSet ==
  \A k \in 1..Len(enrollments) : StatusIn(enrollments[k], Statuses)
C8_Witness ==
  /\ stored # Absent
  /\ Len(enrollments) = 2
  /\ StatusOf(1) = Some("under-review")
  /\ StatusOf(2) = Some("enrolled")

\* The stored value is a JSON array whose elements are all objects.
IsArrayOfRecords(st) ==
  st.kind = "array" /\ \A k \in 1..Len(st.items) : st.items[k].t = "object"

\* C9: when the read throws, or the stored value is no JSON, or is not an
\* array of records, or is absent, the load returns the empty array.
C9_LoadDegradesToEmpty ==
  [][mounts' # mounts =>
       /\ \A readThrows \in BOOLEAN :
            (readThrows \/ ~IsArrayOfRecords(stored)) =>
              loadEnrollmentsFromStorage(stored, readThrows) = <<>>
       /\ ~IsArrayOfRecords(stored) => enrollments' = <<>>]_vars

\* C10: a write that throws leaves the stored value and the rendered result
\* as they are, the hook stays mounted, and a later save that goes through
\* stores the current array.
C10_SaveFailureIsNoOp ==
  /\ [][writeFailures' > writeFailures =>
          /\ stored' = stored
          /\ mounts' > 0
          /\ lastSave' = "threw"
          /\ HookStep => enrollments' \in ApplyQueue(queue, enrollments, DateNow)]_vars
  /\ []((writeFailures > 0 /\ lastSave = "ok") => StoredMirrors(stored, enrollments))
C10_Witness ==
  /\ writeFailures > 0
  /\ lastSave = "ok"
  /\ Len(enrollments) = 2
  /\ StatusOf(2) = Some("uploaded")
\* C11: whenever the tab is not loading, the campaign list it displays is
\* the non-empty list fetchCampaigns resolved with during this mount or the
\* empty list; it is never the bundled mock list.
C11_MockNeverDisplayed ==
  (annPc # "unmounted" /\ ~isLoading) =>
     /\ campaignsList # Campaigns
     /\ \/ campaignsList = <<>>
        \/ /\ supabaseCampaigns # None
           /\ campaignsList = supabaseCampaigns[1]
           /\ campaignsList # <<>>
C11_Witness ==
  /\ annPc = "done"
  /\ ~isLoading
  /\ supabaseCampaigns = None
  /\ DisplayedCampaigns = <<>>
  /\ fetchCalls = 1

\* C12: loadCampaigns calls fetchCampaigns at most once per mount, and a
\* mounted tab always gets to the end of loadCampaigns with isLoading
\* false, whatever the connection test and the fetch did, unless the tab
\* is gone first.
C12_LoadingFinishes ==
  /\ [](fetchCalls <= 1)
  /\ [](annPc = "done" => ~isLoading)
  /\ (annPc # "unmounted" ~> (annPc = "unmounted" \/ (annPc = "done" /\ ~isLoading)))
C12_Witness ==
  /\ annPc = "done"
  /\ ~isLoading
  /\ fetchCalls = 1
  /\ supabaseCampaigns = Some(<<"c2", "c1">>)
  /\ DisplayedCampaigns = <<"c2", "c1">>

\* C13: no call of a fetch function of lib/example-fetch.ts ends in a
\* rejection: it returns the data when the query succeeded, and null when
\* the query reported an error, when it threw, and when the client is null.
C13_FetchNeverThrows ==
  \A f \in FetchFns :
    /\ calls[f].pc # "rejected"
    /\ calls[f].pc = "returned" =>
         /\ calls[f].query = "data" =>
              calls[f].value[1].t = "data" /\ calls[f].value[1].rows \in QueryData(f)
         /\ calls[f].query \in {"error", "throws", "noclient"} => calls[f].value = Some(Null)
         /\ ~isSupabaseConfigured => calls[f].query = "noclient"
C13_Witness ==
  /\ ~isSupabaseConfigured
  /\ supabaseUrl = Some("set")
  /\ \A f \in FetchFns : calls[f] = Returned("noclient", Null)

\* The status a handler writes whatever the record's status was.
ForcedStatus(op) ==
  CASE op = "uploadFile" -> Some("uploaded")
    [] op = "submitForReview" -> Some("processing")
    [] op = "advanceToApproved" -> Some("approved")
    [] op = "rejectEnrollment" -> Some("rejected")
    [] OTHER -> None
\* The queued updaters that look for the id of record e.
UpdatersFor(e) ==
  {j \in 1..Len(queue) : queue[j].op # "enrollInCampaign" /\ e.id = Some(queue[j].id)}
LastUpdaterFor(e) == CHOOSE j \in UpdatersFor(e) : \A i \in UpdatersFor(e) : i <= j
EnrollUpdaters == {j \in 1..Len(queue) : queue[j].op = "enrollInCampaign"}
\* The render of the queued updaters.
RenderStep == HookStep /\ queue # <<>> /\ queue' = <<>>

\* C14: the render after several queued mutations reflects every one of
\* them: each queued enroll call has added its own record, in call order; a
\* record no queued updater looks for is as it was; and a record whose last
\* queued updater is an upload, a submit, a forced approval or a rejection
\* has the status that updater writes, whatever was queued around it.
C14_NoLostUpdates ==
  [][RenderStep =>
       /\ Len(enrollments') = Len(enrollments) + Cardinality(EnrollUpdaters)
       /\ \A j \in EnrollUpdaters :
            LET new == enrollments'[Len(enrollments)
                         + Cardinality({i \in EnrollUpdaters : i <= j})] IN
              new.id = Some(queue[j].id) /\ new.campaign = Some(queue[j].campaign)
       /\ \A k \in 1..Len(enrollments) :
            LET e == enrollments[k] IN
              /\ UpdatersFor(e) = {} => enrollments'[k] = e
              /\ (UpdatersFor(e) # {} /\ ForcedStatus(queue[LastUpdaterFor(e)].op) # None) =>
                    enrollments'[k].status = ForcedStatus(queue[LastUpdaterFor(e)].op)]_vars
\* Two enroll calls and the rejection of an older record wait for the same
\* render.
C14_Witness ==
  /\ Len(queue) = 3
  /\ Cardinality(EnrollUpdaters) = 2
  /\ \E j \in 1..Len(queue), k \in 1..Len(enrollments) :
       /\ queue[j].op = "rejectEnrollment"
       /\ UpdatersFor(enrollments[k]) = {j}
       /\ enrollments[k].status = Some("uploaded")

\* A record as enrollInCampaign makes it.
FreshlyEnrolled(e) ==
  /\ e.status = Some("enrolled")
  /\ e.clicks = Some(0) /\ e.orders = Some(0) /\ e.earnings = Some(0)
  /\ e.uploadedFile = None /\ e.referralUrl = None /\ e.rejectionReason = None

\* C15: of the updaters waiting for the render, each applied to the array
\* the ones before it produce, only those of enrollInCampaign make the
\* array longer; such an updater keeps the records it is given and appends
\* one record with status enrolled, clicks, orders and earnings 0 and no
\* uploaded file, referral URL or rejection reason.
C15_OnlyEnrollCreates ==
  \A j \in 1..Len(queue) :
    \A prev \in ApplyQueue(SubSeq(queue, 1, j - 1), enrollments, DateNow) :
      \A next \in ApplyUpdater(queue[j], prev, DateNow) :
        IF queue[j].op = "enrollInCampaign"
        THEN /\ Len(next) = Len(prev) + 1
             /\ SubSeq(next, 1, Len(prev)) = prev
             /\ FreshlyEnrolled(next[Len(next)])
        ELSE Len(next) = Len(prev)
\* An enroll call waits for the render behind an update of an older record.
C15_Witness ==
  /\ Len(enrollments) = 1
  /\ Len(queue) = 2
  /\ queue[1].op = "advanceToApproved" /\ enrollments[1].id = Some(queue[1].id)
  /\ queue[2].op = "enrollInCampaign"

\* C16: a callback of the 4 s timer changes only a record with its id whose
\* status is processing when the callback is applied, and makes it
\* under-review; a callback of the 8 s timer changes only a record with its
\* id whose status is under-review then, and makes it approved.  Every other
\* record, one rejected, approved or uploaded again in the meantime
\* included, is left as it is, also while the timers of two submits for
\* the same enrollment are pending.
C16_TimersGuarded ==
  \A j \in 1..Len(queue) :
    queue[j].op \in {"reviewTimer", "approveTimer"} =>
      \A prev \in ApplyQueue(SubSeq(queue, 1, j - 1), enrollments, DateNow) :
        \A next \in ApplyUpdater(queue[j], prev, DateNow) :
          /\ Len(next) = Len(prev)
          /\ \A k \in 1..Len(prev) :
               next[k] # prev[k] =>
                 /\ prev[k].id = Some(queue[j].id)
                 /\ IF queue[j].op = "reviewTimer"
                    THEN /\ prev[k].status = Some("processing")
                         /\ next[k] = [prev[k] EXCEPT !.status = Some("under-review")]
                    ELSE /\ prev[k].status = Some("under-review")
                         /\ next[k].status = Some("approved")
\* Two submits for the same enrollment overlap: the 4 s callback of the
\* second finds the record already under review, with both 8 s timers
\* still pending.
C16_Witness ==
  /\ Len(queue) = 1
  /\ queue[1].op = "reviewTimer"
  /\ Len(enrollments) = 1
  /\ enrollments[1].id = Some(queue[1].id)
  /\ enrollments[1].status = Some("under-review")
  /\ Len(timers) = 2
  /\ \A k \in 1..2 : timers[k].op = "approveTimer" /\ timers[k].id = queue[1].id

\* The steps of the chain advanceEnrollment walks.
AdvanceSteps == ChainSteps \ { <<Some("under-review"), Some("rejected")>> }

\* C17: an advanceEnrollment updater leaves alone every record with another
\* id, every approved or rejected record and every record whose status has
\* no next status; a record it changes gets the next status of the chain
\* and nothing else, except that the step to approved also sets the
\* referral URL, clicks, orders, earnings and stats.
C17_AdvanceOneStep ==
  \A j \in 1..Len(queue) :
    queue[j].op = "advanceEnrollment" =>
      \A prev \in ApplyQueue(SubSeq(queue, 1, j - 1), enrollments, DateNow) :
        \A next \in ApplyUpdater(queue[j], prev, DateNow) :
          /\ Len(next) = Len(prev)
          /\ \A k \in 1..Len(prev) :
               LET e == prev[k]
                   n == next[k] IN
                 /\ ( \/ e.id # Some(queue[j].id)
                      \/ StatusIn(e, TerminalStatuses)
                      \/ ~\E step \in AdvanceSteps : step[1] = e.status ) => n = e
                 /\ n # e =>
                      /\ <<e.status, n.status>> \in AdvanceSteps
                      /\ IF n.status = Some("approved")
                         THEN /\ n.referralUrl # None /\ n.stats # None
                              /\ n.stats[1] = [clicks |-> n.clicks[1], orders |-> n.orders[1],
                                                earnings |-> n.earnings[1]]
                              /\ [n EXCEPT !.status = e.status, !.referralUrl = e.referralUrl,
                                           !.clicks = e.clicks, !.orders = e.orders,
                                           !.earnings = e.earnings, !.stats = e.stats] = e
                         ELSE n = [e EXCEPT !.status = n.status]
\* advanceEnrollment is called for a record under review, twice advanced
\* before.
C17_Witness ==
  /\ Len(queue) = 1
  /\ queue[1].op = "advanceEnrollment"
  /\ \E k \in 1..Len(enrollments) :
       /\ enrollments[k].id = Some(queue[1].id)
       /\ enrollments[k].status = Some("under-review")
  /\ timers = <<>>

\* C18: the list the tab displays holds every record of the enrollments
\* array exactly once, a record of higher status priority (approved,
\* under-review, processing, uploaded, enrolled, rejected) before one of
\* lower priority and, within a status, a record enrolled later before one
\* enrolled earlier; and displaying it leaves the enrollments array to the
\* hook: only a render of queued updaters changes the array, to what the
\* updaters make of it.
C18_SortedView ==
  /\ [](tabMounted =>
         LET perm == SortedIndexes(enrollments)
             n == Len(enrollments) IN
           /\ Len(sortedEnrollments) = n
           /\ Len(perm) = n
           /\ {perm[k] : k \in 1..n} = 1..n
           /\ \A i \in 1..n : \A j \in (i + 1)..n :
                LET a == sortedEnrollments[i]
                    b == sortedEnrollments[j] IN
                  /\ statusPriority(a.status) >= statusPriority(b.status)
                  /\ a.status = b.status => a.enrolledAt.v >= b.enrolledAt.v)
  /\ [][HookStep =>
          IF RenderStep THEN enrollments' \in ApplyQueue(queue, enrollments, DateNow)
          ELSE enrollments' = enrollments]_allVars
\* Two stored records and one enrolled in this session, displayed in
\* another order than the array has them.
C18_Witness ==
  /\ tabMounted
  /\ Len(enrollments) = 3
  /\ SortedIndexes(enrollments) = <<1, 3, 2>>
  /\ enrollments[2].status = enrollments[3].status

\* Where record k of the array is displayed.
PositionOf(perm, k) == CHOOSE i \in 1..Len(perm) : perm[i] = k
\* No two records of the array share an id.
UniqueIds(enrs) == \A i, j \in 1..Len(enrs) : enrs[i].id = enrs[j].id => i = j

\* C19: when the tab mounts no card is marked animating; and when a render
\* changes the displayed list of a mounted tab, then, if some record that
\* was displayed before is displayed at another index now, the cards
\* marked animating are exactly the cards of those records (so no card of
\* a record the render added), and if none is, the marks stay as they are.
C19_AnimatesMovedCards ==
  [][/\ (~tabMounted /\ tabMounted') => animatingCardIds' = {}
     /\ (tabMounted /\ tabMounted' /\ RenderStep) =>
          LET moved == {k \in 1..Len(enrollments) :
                          PositionOf(SortedIndexes(enrollments'), k)
                            # PositionOf(SortedIndexes(enrollments), k)} IN
            IF moved = {} THEN animatingCardIds' = animatingCardIds
            ELSE \A k \in 1..Len(enrollments') :
                   enrollments'[k].id \in animatingCardIds' <=> k \in moved]_allVars

\* C20: while an enrollment is selected in a mounted tab, the modal is given
\* a record of the current enrollments array that has the selected id, and
\* every upload and submit call made from the modal is for the selected id.
C20_ModalInSync ==
  /\ []((tabMounted /\ selectedEnrollment # None) =>
          /\ currentEnrollment # None
          /\ currentEnrollment[1].id = selectedEnrollment[1].id
          /\ \E k \in 1..Len(enrollments) : enrollments[k] = currentEnrollment[1])
  /\ [][(/\ HookStep
          /\ Len(queue') = Len(queue) + 1
          /\ queue'[Len(queue')].op \in {"uploadFile", "submitForReview"}) =>
            /\ selectedEnrollment # None
            /\ Some(queue'[Len(queue')].id) = selectedEnrollment[1].id]_allVars
\* The selected record was uploaded from the modal after it was clicked:
\* the modal shows the uploaded record, the snapshot is still enrolled.
C20_Witness ==
  /\ tabMounted
  /\ selectedEnrollment # None
  /\ selectedEnrollment[1].status = Some("enrolled")
  /\ currentEnrollment # None
  /\ currentEnrollment[1].status = Some("uploaded")
  /\ currentEnrollment[1].uploadedFile # None

\* C21: a tooltip is removed (hoveredIndex and tooltipPosition back to
\* null) only by the timeout of a leave that came after the hover that
\* opened it; and while the timeout of the latest leave is in the ref, that
\* timeout is pending and runs no later than FADE_DELAY ms after the leave.
C21_HoverCancelsFadeOut ==
  /\ [][(hoveredIndex # None /\ hoveredIndex' = None) =>
          /\ tooltipPosition' = None
          /\ chartTimers # <<>>
          /\ chartTimers[1].id > openedBy]_allVars
  /\ [](tooltipTimeoutRef # None =>
          \E k \in 1..Len(chartTimers) :
            /\ chartTimers[k].id = tooltipTimeoutRef[1]
            /\ ChartTimeMs <= chartTimers[k].due)

\* The updaters that address one enrollment by id.
IdTargeting == {"uploadFile", "submitForReview", "reviewTimer", "approveTimer",
                "advanceEnrollment", "advanceToApproved", "rejectEnrollment"}

\* C22: an updater of uploadFile, submitForReview, its two timers,
\* advanceEnrollment, advanceToApproved or rejectEnrollment returns an array
\* of the same length with the same ids at the same indexes, in which every
\* record whose id is not the given one is unchanged; when no record has
\* the given id the array is unchanged.
C22_FrameCondition ==
  \A j \in 1..Len(queue) :
    queue[j].op \in IdTargeting =>
      \A prev \in ApplyQueue(SubSeq(queue, 1, j - 1), enrollments, DateNow) :
        \A next \in ApplyUpdater(queue[j], prev, DateNow) :
          /\ Len(next) = Len(prev)
          /\ \A k \in 1..Len(prev) :
               /\ next[k].id = prev[k].id
               /\ prev[k].id # Some(queue[j].id) => next[k] = prev[k]
          /\ (\A k \in 1..Len(prev) : prev[k].id # Some(queue[j].id)) => next = prev
\* Two records with different ids are rendered; a submit for the first and
\* an upload for an id no record has are queued.
C22_Witness ==
  /\ Len(enrollments) = 2
  /\ enrollments[1].id # enrollments[2].id
  /\ Len(queue) = 2
  /\ queue[1].op = "submitForReview"
  /\ Some(queue[1].id) = enrollments[1].id
  /\ queue[2].op = "uploadFile"
  /\ queue[2].id = MissingId

\* C23: no two records of the enrollments array have the same id, and an
\* updater addressed to one id changes at most one record of the array it
\* is applied to.
C23_IdsUnique ==
  /\ UniqueIds(enrollments)
  /\ \A j \in 1..Len(queue) :
       queue[j].op \in IdTargeting =>
         \A prev \in ApplyQueue(SubSeq(queue, 1, j - 1), enrollments, DateNow) :
           \A next \in ApplyUpdater(queue[j], prev, DateNow) :
             \A k, m \in 1..Len(prev) :
               (next[k] # prev[k] /\ next[m] # prev[m]) => k = m

\* The campaigns that have an enrollment in the array enrs.
EnrolledCampaigns(enrs) == {enrs[k].campaign : k \in 1..Len(enrs)}
\* A call of enrollSampleCampaign.
SampleCall == HookStep /\ ops' = ops + 1

\* C24: no array the queued updaters produce holds two enrollments of one
\* campaign; a call of enrollSampleCampaign made when some campaign has no
\* enrollment, queued ones included, queues the enrollment of the first
\* such campaign of the catalogue; a call made when every campaign is
\* enrolled leaves the enrollments and the queue as they are and shows the
\* info toast.
C24_SampleEnrollsOnce ==
  /\ [](\A enrs \in ApplyQueue(queue, enrollments, DateNow) :
          \A i, j \in 1..Len(enrs) : enrs[i].campaign = enrs[j].campaign => i = j)
  /\ [][SampleCall =>
          \A enrs \in ApplyQueue(queue, enrollments, DateNow) :
            LET free == SelectSeq(Campaigns,
                                  LAMBDA c : Some(c) \notin EnrolledCampaigns(enrs)) IN
              IF free = <<>>
              THEN /\ queue' = queue
                   /\ enrollments' = enrollments
                   /\ toast' = Some([message |-> "All campaigns already enrolled!",
                                     type |-> "info"])
              ELSE /\ Len(queue') = Len(queue) + 1
                   /\ queue'[Len(queue')].op = "enrollInCampaign"
                   /\ queue'[Len(queue')].campaign = free[1]]_allVars

\* The callback op for the enrollment id is pending as a timer or has run
\* and waits for the render.
WillRun(op, id) == HasTimer(op, id) \/ Queued(op, id)

\* C25: every rendered enrollment in processing has a review timer that
\* will advance it, and every one under review an approve timer, however
\* it entered that status.
C25_PipelineHasTimer ==
  \A k \in 1..Len(enrollments) :
    /\ StatusOf(k) = Some("processing") => WillRun("reviewTimer", enrollments[k].id)
    /\ StatusOf(k) = Some("under-review") => WillRun("approveTimer", enrollments[k].id)

\* C26: from empty storage, every rendered enrollment with status approved
\* has a referral URL built from its campaign, stats equal to its clicks,
\* orders and earnings, clicks >= 100, orders >= 10, earnings >= 50 and
\* orders < clicks.
C26_ApprovedWellFormed ==
  \A k \in 1..Len(enrollments) :
    LET e == enrollments[k] IN
      StatusOf(k) = Some("approved") =>
        /\ e.referralUrl # None
        /\ e.referralUrl[1].campaign = e.campaign
        /\ e.clicks # None /\ e.orders # None /\ e.earnings # None
        /\ e.stats = Some([clicks |-> e.clicks[1], orders |-> e.orders[1],
                           earnings |-> e.earnings[1]])
        /\ e.clicks[1] >= 100
        /\ e.orders[1] >= 10
        /\ e.earnings[1] >= 50
        /\ e.orders[1] < e.clicks[1]
\* A record enrolled, uploaded to and submitted has been approved by the
\* 8 s timer, with statistics advanceToApproved does not draw.
C26_Witness ==
  /\ Len(enrollments) = 1
  /\ StatusOf(1) = Some("approved")
  /\ enrollments[1].uploadedFile # None
  /\ enrollments[1].referralUrl # None
  /\ enrollments[1].orders \in {Some(o) : o \in RandomInt(40, 10) \ RandomInt(50, 10)}
  /\ timers = <<>>

====
